---------------------------- MODULE Spec2Model ----------------------------
(***************************************************************************)
(* Model of the installation-patching subsystem of cursor-auto-free        *)
(* (src/patch_cursor_get_machine_id.py): path discovery, requirement       *)
(* check, version policy, backup / restore and the regex patch of main.js, *)
(* sequenced by patch_cursor_get_machine_id.                               *)
(*                                                                         *)
(* File contents are sequences of tokens.  The two literal pattern         *)
(* prefixes are one token each; every other token is one character (or an  *)
(* identifier that contains none of the characters the patterns test).     *)
(***************************************************************************)
EXTENDS Integers, Sequences, FiniteSets, TLC

VARIABLES
    system,        \* platform.system() of the host
    os_name,       \* os.name of the host ("posix" or "nt")
    fs,            \* the files of the candidate installations: path -> file or NoFile
    tmp,           \* the temporary file of the current / latest modify_main_js call
    pc,            \* position of patch_cursor_get_machine_id
    restore_mode,  \* its argument
    paths,         \* (pkg_path, main_path) as returned by get_cursor_paths
    version,       \* the version read from package.json
    trace,         \* stages run by the current / latest run, each with its result
    exit_status,   \* exit status of the latest run: "0", "1", "running", "none"
    start,         \* history: files of the located installation when the run started
    snap,          \* history: the target as it was when backup_files last succeeded
    streak,        \* history: target content before the first and before the last
                   \* of the successful normal-mode runs that end here
    call,          \* a call of version_check on its own: arguments and result
    run            \* a call of one of the retry loops of cursor_pro_keep_alive.py

vars == << system, os_name, fs, tmp, pc, restore_mode, paths, version, trace,
           exit_status, start, snap, streak, call, run >>

\* No value yet: a path pair not located, a version not read, no history.
None == << >>
\* No file at a path.
NoFile == [ content |-> << >>, mode |-> "none", uid |-> "none" ]
\* package.json that is not JSON or has no "version" key.
NoVersion == << "{}" >>
NoRun == [ fn |-> "none" ]
NoCall == [ version |-> << >>, min_version |-> << >>, max_version |-> << >>,
            result |-> "none" ]

-----------------------------------------------------------------------------
(* Text of main.js *)

\* "async getMachineId(){return " and "async getMacMachineId(){return "
H1 == "async getMachineId(){return "
H2 == "async getMacMachineId(){return "

Tokens == { H1, H2, "?", "}", " ", "a.machineId", "b.machineId" }

\* Index of the first token equal to c at or after position i, Len(s)+1 if none.
RECURSIVE Find(_, _, _)
Find(s, i, c) ==
    IF i > Len(s) THEN Len(s) + 1
    ELSE IF s[i] = c THEN i
    ELSE Find(s, i + 1, c)

\* re.match of  <header>[^??]+\?\?([^}]+)\}  at position i of s.
\* The result is <<first, last>> of group 1 and last + 1 is the closing brace;
\* <<0, 0>> when the pattern does not match at i.  Both character classes are
\* greedy and are followed by a character they exclude, so the match at a given
\* start is unique.
MatchAt(s, i, header) ==
    LET q == Find(s, i + 1, "?")
        b == Find(s, q + 2, "}")
    IN  IF /\ s[i] = header
           /\ q >= i + 2                 \* [^??]+ takes at least one character
           /\ q + 1 <= Len(s)
           /\ s[q + 1] = "?"             \* \?\?
           /\ b <= Len(s)
           /\ b >= q + 3                 \* ([^}]+) takes at least one character
        THEN << q + 2, b - 1 >>
        ELSE << 0, 0 >>

\* re.sub(pattern, replacement, content): leftmost non-overlapping matches,
\* each replaced by  <header>\1}
RECURSIVE SubFrom(_, _, _)
SubFrom(s, i, header) ==
    IF i > Len(s) THEN << >>
    ELSE LET m == MatchAt(s, i, header)
         IN  IF m[1] # 0
             THEN << header >> \o SubSeq(s, m[1], m[2]) \o << "}" >>
                      \o SubFrom(s, m[2] + 2, header)
             ELSE << s[i] >> \o SubFrom(s, i + 1, header)

re_sub(header, content) == SubFrom(content, 1, header)

\* The loop over patterns.items(): getMachineId first, then getMacMachineId.
ApplyPatterns(content) == re_sub(H2, re_sub(H1, content))

-----------------------------------------------------------------------------
(* version_check *)

Digits == { "0", "1", "4", "5", "6", "9" }

DigitVal(c) ==
    CASE c = "0" -> 0 [] c = "1" -> 1 [] c = "4" -> 4
      [] c = "5" -> 5 [] c = "6" -> 6 [] c = "9" -> 9

\* str.split("."): the parts between the dots, empty parts included.
RECURSIVE SplitDots(_, _)
SplitDots(s, cur) ==
    IF s = << >> THEN << cur >>
    ELSE IF Head(s) = "." THEN << cur >> \o SplitDots(Tail(s), << >>)
    ELSE SplitDots(Tail(s), Append(cur, Head(s)))

split(ver) == SplitDots(ver, << >>)

IsInt(part) == part # << >> /\ \A i \in 1..Len(part) : part[i] \in Digits

\* Mutant: only the first digit of a part counts.
int_first_digit(part) == DigitVal(part[1])

RECURSIVE int(_)
int(part) ==
    IF part = << >> THEN 0
    ELSE 10 * int(SubSeq(part, 1, Len(part) - 1)) + DigitVal(part[Len(part)])

\* re.match(r"^\d+\.\d+\.\d+$", version)
MatchesVersionPattern(ver) ==
    LET parts == split(ver)
    IN  Len(parts) = 3 /\ \A i \in 1..3 : IsInt(parts[i])

\* parse_version raises ValueError when a part is not an integer literal.
ParseRaises(ver) == \E i \in 1..Len(split(ver)) : ~IsInt(split(ver)[i])

parse_version(ver) == [ i \in 1..Len(split(ver)) |-> int(split(ver)[i]) ]

\* Mutant: smaller in some component, whatever the components before it.
TupleLessSomewhere(a, b) ==
    \E i \in 1..Len(a) : i <= Len(b) /\ a[i] < b[i]

\* Python's < on tuples of integers: lexicographic, a proper prefix is smaller.
RECURSIVE TupleLess(_, _)
TupleLess(a, b) ==
    IF b = << >> THEN FALSE
    ELSE IF a = << >> THEN TRUE
    ELSE IF Head(a) # Head(b) THEN Head(a) < Head(b)
    ELSE TupleLess(Tail(a), Tail(b))

\* An empty bound ("") is falsy and imposes no constraint; any exception is
\* caught and turned into False.
version_check(ver, min_version, max_version) ==
    IF ~MatchesVersionPattern(ver) THEN FALSE
    ELSE LET current == parse_version(ver)
         IN  IF min_version # << >> /\ ParseRaises(min_version) THEN FALSE
             ELSE IF min_version # << >>
                     /\ TupleLess(current, parse_version(min_version)) THEN FALSE
             ELSE IF max_version # << >> /\ ParseRaises(max_version) THEN FALSE
             ELSE IF max_version # << >>
                     /\ TupleLess(parse_version(max_version), current) THEN FALSE
             ELSE TRUE

\* min_version="0.45.0" of the call in patch_cursor_get_machine_id
MinVersion == << "0", ".", "4", "5", ".", "0" >>

-----------------------------------------------------------------------------
(* Files *)

\* A path is <<base directory, relative name, suffix>>.
LinuxBases == << "/opt/Cursor/resources/app", "/usr/share/cursor/resources/app" >>
DarwinBase == "/Applications/Cursor.app/Contents/Resources/app"
WindowsBase == "%LOCALAPPDATA%/Programs/Cursor/resources/app"

Pkg(base) == << base, "package.json", "" >>
Main(base) == << base, "out/main.js", "" >>
Bak(path) == << path[1], path[2], ".bak" >>
\* Mutant: modify_main_js keeps its copy of the original under the backup's name.
OldIsBak(path) == << path[1], path[2], ".bak" >>
Old(path) == << path[1], path[2], ".old" >>

\* paths_map
Bases(sys) ==
    CASE sys = "Linux" -> LinuxBases
      [] sys = "Darwin" -> << DarwinBase >>
      [] sys = "Windows" -> << WindowsBase >>
      [] OTHER -> << >>

PathsOf(sys) ==
    UNION { { Pkg(Bases(sys)[i]), Main(Bases(sys)[i]),
              Bak(Main(Bases(sys)[i])), Old(Main(Bases(sys)[i])) }
            : i \in 1..Len(Bases(sys)) }

\* The user the script runs as, and the mode mkstemp gives a new temporary file
\* and open() gives a new file.
ProcessUid == "user"
TmpMode == "0600"
NewFileMode == "0644"

exists(f, path) == path \in DOMAIN f /\ f[path] # NoFile

\* os.path.isfile and os.access(path, os.W_OK) of check_system_requirements
Writable(file) ==
    IF file.uid = ProcessUid THEN file.mode \in { "0600", "0644", "0666" }
    ELSE file.mode = "0666"

\* shutil.copy2(src, dst) = copyfile then copystat.  It can raise before dst is
\* opened, after dst was truncated, or in copystat after the content was copied.
CopyOutcomes == { "ok", "fail_open", "fail_partial", "fail_stat" }
CopyFailures == CopyOutcomes \ { "ok" }

\* Mutant: shutil.copyfile in place of shutil.copy2, the mode is not copied.
copyfile(f, src, dst, outcome) ==
    LET uid == IF exists(f, dst) THEN f[dst].uid ELSE ProcessUid
        mode == IF exists(f, dst) THEN f[dst].mode ELSE NewFileMode
    IN  CASE outcome \in { "ok", "fail_stat" } ->
               [ f EXCEPT ![dst] = [ content |-> f[src].content,
                                     mode |-> mode, uid |-> uid ] ]
          [] outcome = "fail_open" -> f
          [] outcome = "fail_partial" ->
               [ f EXCEPT ![dst] = [ content |-> << >>, mode |-> mode, uid |-> uid ] ]

copy2(f, src, dst, outcome) ==
    LET uid == IF exists(f, dst) THEN f[dst].uid ELSE ProcessUid
        mode == IF exists(f, dst) THEN f[dst].mode ELSE NewFileMode
    IN  CASE outcome = "ok" ->
               [ f EXCEPT ![dst] = [ content |-> f[src].content,
                                     mode |-> f[src].mode, uid |-> uid ] ]
          [] outcome = "fail_open" -> f
          [] outcome = "fail_partial" ->
               [ f EXCEPT ![dst] = [ content |-> << >>, mode |-> mode, uid |-> uid ] ]
          [] outcome = "fail_stat" ->
               [ f EXCEPT ![dst] = [ content |-> f[src].content,
                                     mode |-> mode, uid |-> uid ] ]

-----------------------------------------------------------------------------
(* get_cursor_paths, check_system_requirements *)

\* Mutant: the last Linux candidate whose package.json exists; 0 if none.
RECURSIVE LastBase(_, _)
LastBase(f, i) ==
    IF i > Len(LinuxBases) THEN 0
    ELSE IF LastBase(f, i + 1) # 0 THEN LastBase(f, i + 1)
    ELSE IF exists(f, Pkg(LinuxBases[i])) THEN i
    ELSE 0

\* First Linux candidate, from position i on, whose package.json exists; 0 if none.
RECURSIVE FirstBase(_, _)
FirstBase(f, i) ==
    IF i > Len(LinuxBases) THEN 0
    ELSE IF exists(f, Pkg(LinuxBases[i])) THEN i
    ELSE FirstBase(f, i + 1)

\* Result: raised (OSError), or the pair (pkg_path, main_path).  On Windows a
\* missing base directory only logs guidance and waits for Enter; the paths
\* returned are the same.
get_cursor_paths(sys, f) ==
    IF sys \notin { "Darwin", "Windows", "Linux" }
    THEN [ raised |-> TRUE, paths |-> None ]
    ELSE IF sys = "Linux"
    THEN IF FirstBase(f, 1) = 0
         THEN [ raised |-> TRUE, paths |-> None ]
         ELSE [ raised |-> FALSE,
                paths |-> << Pkg(LinuxBases[FirstBase(f, 1)]),
                             Main(LinuxBases[FirstBase(f, 1)]) >> ]
    ELSE [ raised |-> FALSE,
           paths |-> << Pkg(Bases(sys)[1]), Main(Bases(sys)[1]) >> ]

\* Mutant: package.json is not looked at.
check_system_requirements_of_target(f, pkg_path, main_path) ==
    exists(f, main_path) /\ Writable(f[main_path])

check_system_requirements(f, pkg_path, main_path) ==
    /\ exists(f, pkg_path) /\ Writable(f[pkg_path])
    /\ exists(f, main_path) /\ Writable(f[main_path])

-----------------------------------------------------------------------------
(* backup_files, restore_backup_files *)

\* Mutant: an existing backup is kept instead of overwritten.
backup_files_keeping_first(f, main_path, outcome) ==
    IF exists(f, main_path) /\ ~exists(f, Bak(main_path))
    THEN [ fs |-> copy2(f, main_path, Bak(main_path), outcome),
           ok |-> outcome = "ok" ]
    ELSE [ fs |-> f, ok |-> TRUE ]

\* Result: the files afterwards and the boolean returned.
backup_files(f, main_path, outcome) ==
    IF exists(f, main_path)
    THEN [ fs |-> copy2(f, main_path, Bak(main_path), outcome),
           ok |-> outcome = "ok" ]
    ELSE [ fs |-> f, ok |-> TRUE ]

\* Mutant: the arguments of the copy are swapped.
restore_backup_files_swapped(f, main_path, outcome) ==
    IF exists(f, Bak(main_path))
    THEN [ fs |-> copy2(f, main_path, Bak(main_path), outcome),
           ok |-> outcome = "ok" ]
    ELSE [ fs |-> f, ok |-> FALSE ]

\* Mutant: a missing backup is not reported.
restore_backup_files_silent(f, main_path, outcome) ==
    IF exists(f, Bak(main_path))
    THEN [ fs |-> copy2(f, Bak(main_path), main_path, outcome),
           ok |-> outcome = "ok" ]
    ELSE [ fs |-> f, ok |-> TRUE ]

restore_backup_files(f, main_path, outcome) ==
    IF exists(f, Bak(main_path))
    THEN [ fs |-> copy2(f, Bak(main_path), main_path, outcome),
           ok |-> outcome = "ok" ]
    ELSE [ fs |-> f, ok |-> FALSE ]

-----------------------------------------------------------------------------
(* modify_main_js *)

\* shutil.move renames when it can and otherwise copies and unlinks the source;
\* os.rename onto an existing file always fails on Windows.
MoveKinds(nt) == IF nt THEN { "copy" } ELSE { "rename", "copy" }

\* Where the call raises, if anywhere: at is the failing step ("none": no step
\* fails), how the way a failing copy fails, move the way shutil.move works.
PatchFaults(nt) ==
    { [ at |-> a, how |-> "ok", move |-> "rename" ]
        : a \in { "stat", "mktemp", "read", "write", "close" } }
    \cup { [ at |-> "copy_old", how |-> h, move |-> "rename" ] : h \in CopyFailures }
    \cup { [ at |-> "move", how |-> h, move |-> "copy" ] : h \in CopyFailures }
    \cup { [ at |-> a, how |-> "ok", move |-> m ]
             : a \in { "none", "chmod" } \cup (IF nt THEN { } ELSE { "chown" }),
               m \in MoveKinds(nt) }

\* Mutant: the mode of the original is not put back.
chmod_skipped(f, path, mode) == f

\* os.chmod(main_path, original_mode) and os.chown(main_path, uid, gid); uid
\* stands for the owning user and group.
chmod(f, path, mode) == [ f EXCEPT ![path].mode = mode ]
chown(f, path, uid) == [ f EXCEPT ![path].uid = uid ]

\* Result: the files afterwards, what became of the temporary file ("none": never
\* created, moved or unlinked; "leaked": left on disk) and result, "True" or
\* "False" as returned, "raise" when the except block itself raises because
\* os.unlink(tmp_path) finds the file already moved.
modify_main_js(f, main_path, nt, fault) ==
    IF fault.at \in { "stat", "mktemp" } \/ ~exists(f, main_path)
    THEN [ fs |-> f, tmp |-> "none", result |-> "False" ]
    ELSE IF fault.at \in { "read", "write" }       \* tmp_path is not yet assigned
    THEN [ fs |-> f, tmp |-> "leaked", result |-> "False" ]
    ELSE IF fault.at = "close"
    THEN [ fs |-> f, tmp |-> "none", result |-> "False" ]
    ELSE
    LET original == f[main_path]
        content == ApplyPatterns(original.content)
        failed_old == copy2(f, main_path, Old(main_path), fault.how)
        f1 == copy2(f, main_path, Old(main_path), "ok")
        moved == [ content |-> content, mode |-> TmpMode,
                   uid |-> IF fault.move = "rename" THEN ProcessUid ELSE original.uid ]
        f2 == [ f1 EXCEPT ![main_path] = moved ]
        f3 == chmod(f2, main_path, original.mode)
        f4 == IF nt THEN f3 ELSE chown(f3, main_path, original.uid)
    IN  CASE fault.at = "copy_old" ->
               [ fs |-> failed_old, tmp |-> "none", result |-> "False" ]
          [] fault.at = "move" ->
               [ fs |-> [ f1 EXCEPT
                          ![main_path] =
                              CASE fault.how = "fail_open" -> original
                                [] fault.how = "fail_partial" ->
                                     [ original EXCEPT !.content = << >> ]
                                [] fault.how = "fail_stat" ->
                                     [ original EXCEPT !.content = content ] ],
                 tmp |-> "none", result |-> "False" ]
          [] fault.at = "chmod" -> [ fs |-> f2, tmp |-> "none", result |-> "raise" ]
          [] fault.at = "chown" -> [ fs |-> f3, tmp |-> "none", result |-> "raise" ]
          [] OTHER -> [ fs |-> f4, tmp |-> "none", result |-> "True" ]

-----------------------------------------------------------------------------
(* patch_cursor_get_machine_id *)

\* Mutant: the results of the version check and of the backup are ignored.
OrchestrateIgnoringFailure(stage, ok, restore) ==
    CASE stage = "locate" ->
           IF ok THEN [ pc |-> "check", exit |-> "running" ]
           ELSE [ pc |-> "idle", exit |-> "1" ]
      [] stage = "check" ->
           IF ~ok THEN [ pc |-> "idle", exit |-> "1" ]
           ELSE IF restore THEN [ pc |-> "restore", exit |-> "running" ]
           ELSE [ pc |-> "version-read", exit |-> "running" ]
      [] stage = "restore" -> [ pc |-> "idle", exit |-> "0" ]
      [] stage = "version-read" ->
           IF ok THEN [ pc |-> "version-policy", exit |-> "running" ]
           ELSE [ pc |-> "idle", exit |-> "1" ]
      [] stage = "version-policy" -> [ pc |-> "backup", exit |-> "running" ]
      [] stage = "backup" -> [ pc |-> "patch", exit |-> "running" ]
      [] stage = "patch" ->
           IF ok THEN [ pc |-> "idle", exit |-> "0" ] ELSE [ pc |-> "idle", exit |-> "1" ]

\* What the orchestrator does once a stage has returned ok (or not): the next
\* stage, or "idle" with the exit status of the process.  sys.exit(1) raises
\* SystemExit, which "except Exception" does not catch; a plain return and the
\* end of the function exit 0.
Orchestrate(stage, ok, restore) ==
    CASE stage = "locate" ->
           IF ok THEN [ pc |-> "check", exit |-> "running" ] ELSE [ pc |-> "idle", exit |-> "1" ]
      [] stage = "check" ->
           IF ~ok THEN [ pc |-> "idle", exit |-> "1" ]
           ELSE IF restore THEN [ pc |-> "restore", exit |-> "running" ]
           ELSE [ pc |-> "version-read", exit |-> "running" ]
      [] stage = "restore" -> [ pc |-> "idle", exit |-> "0" ]
      [] stage = "version-read" ->
           IF ok THEN [ pc |-> "version-policy", exit |-> "running" ]
           ELSE [ pc |-> "idle", exit |-> "1" ]
      [] stage = "version-policy" ->
           IF ok THEN [ pc |-> "backup", exit |-> "running" ] ELSE [ pc |-> "idle", exit |-> "1" ]
      [] stage = "backup" ->
           IF ok THEN [ pc |-> "patch", exit |-> "running" ] ELSE [ pc |-> "idle", exit |-> "1" ]
      [] stage = "patch" ->
           IF ok THEN [ pc |-> "idle", exit |-> "0" ] ELSE [ pc |-> "idle", exit |-> "1" ]

\* History: the run of successful normal-mode runs that ends here.
StreakAfter(stage, ok) ==
    IF restore_mode THEN streak
    ELSE IF stage = "patch" /\ ok
    THEN << IF streak = None THEN start[paths[2]].content ELSE streak[1],
            start[paths[2]].content >>
    ELSE IF Orchestrate(stage, ok, restore_mode).pc = "idle" THEN None
    ELSE streak

\* History: the target as backup_files saw it, once it has returned r; a failed
\* copy that touched the backup leaves no known backup.
SnapAfter(f, main_path, r) ==
    IF r.ok /\ exists(f, main_path) THEN f[main_path]
    ELSE IF r.fs = f THEN snap
    ELSE NoFile

\* A stage has run and returned ok.
Advance(stage, ok) ==
    /\ trace' = Append(trace, [ stage |-> stage, ok |-> ok ])
    /\ pc' = Orchestrate(stage, ok, restore_mode).pc
    /\ exit_status' = Orchestrate(stage, ok, restore_mode).exit
    /\ streak' = StreakAfter(stage, ok)

\* The script is started, in normal or in restore mode.
Invoke(restore) ==
    /\ pc = "idle"
    /\ pc' = "locate"
    /\ restore_mode' = restore
    /\ paths' = None
    /\ version' = None
    /\ trace' = << >>
    /\ exit_status' = "running"
    /\ tmp' = "none"
    /\ start' = fs
    /\ streak' = IF restore_mode THEN None ELSE streak
    /\ UNCHANGED << run, call, system, os_name, fs, snap >>

GetCursorPaths ==
    /\ pc = "locate"
    /\ paths' = get_cursor_paths(system, fs).paths
    /\ Advance("locate", ~get_cursor_paths(system, fs).raised)
    /\ UNCHANGED << run, call, system, os_name, fs, tmp, restore_mode, version, start, snap >>

CheckSystemRequirements ==
    /\ pc = "check"
    /\ Advance("check", check_system_requirements(fs, paths[1], paths[2]))
    /\ UNCHANGED << run, call, system, os_name, fs, tmp, restore_mode, paths, version, start, snap >>

RestoreBackupFiles ==
    /\ pc = "restore"
    /\ \E outcome \in CopyOutcomes :
         LET r == restore_backup_files(fs, paths[2], outcome)
         IN  /\ fs' = r.fs
             /\ Advance("restore", r.ok)
    /\ UNCHANGED << run, call, system, os_name, tmp, restore_mode, paths, version, start, snap >>

\* json.load(f)["version"]: raises when the file cannot be read or parsed or has
\* no "version" key.
ReadVersion ==
    /\ pc = "version-read"
    /\ \E io_error \in BOOLEAN :
         LET ok == ~io_error /\ fs[paths[1]].content # NoVersion
         IN  /\ version' = IF ok THEN fs[paths[1]].content ELSE None
             /\ Advance("version-read", ok)
    /\ UNCHANGED << run, call, system, os_name, fs, tmp, restore_mode, paths, start, snap >>

VersionCheck ==
    /\ pc = "version-policy"
    /\ Advance("version-policy", version_check(version, MinVersion, << >>))
    /\ UNCHANGED << run, call, system, os_name, fs, tmp, restore_mode, paths, version, start, snap >>

BackupFiles ==
    /\ pc = "backup"
    /\ \E outcome \in CopyOutcomes :
         LET r == backup_files(fs, paths[2], outcome)
         IN  /\ fs' = r.fs
             /\ snap' = SnapAfter(fs, paths[2], r)
             /\ Advance("backup", r.ok)
    /\ UNCHANGED << run, call, system, os_name, tmp, restore_mode, paths, version, start >>

\* An exception that leaves modify_main_js is caught by the orchestrator's
\* "except Exception", which exits 1.
ModifyMainJs ==
    /\ pc = "patch"
    /\ \E fault \in PatchFaults(os_name = "nt") :
         LET r == modify_main_js(fs, paths[2], os_name = "nt", fault)
         IN  /\ fs' = r.fs
             /\ tmp' = r.tmp
             /\ Advance("patch", r.result = "True")
    /\ UNCHANGED << run, call, system, os_name, restore_mode, paths, version, start, snap >>

-----------------------------------------------------------------------------
(* The installation and its environment *)

A == "a.machineId"
B == "b.machineId"

\* main.js texts: the accessor written with spaces around ??, an accessor whose
\* fallback is itself a ?? chain, both accessors as a minifier writes them, and
\* a text without either accessor.
Spaced == << H1, A, " ", "?", "?", " ", B, "}" >>
Chained == << H1, A, "?", "?", B, "?", "?", A, "}" >>
Minified == << H1, A, "?", "?", B, "}", H2, A, "?", "?", B, "}" >>
Plain == << A, "}" >>

Contents == { Spaced, Chained, Minified, Plain }

V0440 == << "0", ".", "4", "4", ".", "0" >>
V0461 == << "0", ".", "4", "6", ".", "1" >>
V045 == << "0", ".", "4", "5" >>

\* package.json as installed: its content is the value of "version".
Manifests ==
    { [ content |-> v, mode |-> "0644", uid |-> ProcessUid ]
        : v \in { V0440, MinVersion, V0461, V045, NoVersion } }
    \cup { [ content |-> V0461, mode |-> "0444", uid |-> ProcessUid ] }

\* main.js as installed: owned by the user, world-writable and owned by root,
\* read-only, or missing.
Targets ==
    { [ content |-> c, mode |-> m[1], uid |-> m[2] ]
        : c \in Contents,
          m \in { << "0644", ProcessUid >>, << "0666", "root" >>,
                  << "0444", ProcessUid >> } }
    \cup { NoFile }

Hosts ==
    { << "Linux", "posix" >>, << "Darwin", "posix" >>, << "Windows", "nt" >>,
      << "FreeBSD", "posix" >> }

Init ==
    /\ \E host \in Hosts : system = host[1] /\ os_name = host[2]
    /\ \E manifest \in Manifests, target \in Targets,
          installed \in SUBSET { Bases(system)[i] : i \in 1..Len(Bases(system)) } :
         fs = [ p \in PathsOf(system) |->
                  IF p[1] \in installed /\ p = Pkg(p[1]) THEN manifest
                  ELSE IF p[1] \in installed /\ p = Main(p[1]) THEN target
                  ELSE NoFile ]
    /\ tmp = "none"
    /\ pc = "idle"
    /\ restore_mode = FALSE
    /\ paths = None
    /\ version = None
    /\ trace = << >>
    /\ exit_status = "none"
    /\ start = fs
    /\ snap = NoFile
    /\ streak = None
    /\ call = NoCall
    /\ run = NoRun

Next ==
    \/ \E restore \in BOOLEAN : Invoke(restore)
    \/ GetCursorPaths
    \/ CheckSystemRequirements
    \/ RestoreBackupFiles
    \/ ReadVersion
    \/ VersionCheck
    \/ BackupFiles
    \/ ModifyMainJs

Spec == Init /\ [][Next]_vars

-----------------------------------------------------------------------------
(* backup_files and restore_backup_files called on their own, in any order,  *)
(* with main.js rewritten or its mode changed by anyone in between.          *)

TargetPath == Main(LinuxBases[1])

InitFiles ==
    /\ system = "Linux"
    /\ os_name = "posix"
    /\ \E target \in Targets :
         fs = [ p \in PathsOf(system) |-> IF p = TargetPath THEN target ELSE NoFile ]
    /\ tmp = "none"
    /\ pc = "idle"
    /\ restore_mode = FALSE
    /\ paths = << Pkg(LinuxBases[1]), TargetPath >>
    /\ version = None
    /\ trace = << >>
    /\ exit_status = "none"
    /\ start = fs
    /\ snap = NoFile
    /\ streak = None
    /\ call = NoCall
    /\ run = NoRun

\* trace holds the latest call, what it returned and how its copy went (io);
\* start holds the files before the call.
CallBackup ==
    /\ \E outcome \in CopyOutcomes :
         LET r == backup_files(fs, paths[2], outcome)
         IN  /\ fs' = r.fs
             /\ snap' = SnapAfter(fs, paths[2], r)
             /\ trace' = << [ stage |-> "backup", ok |-> r.ok, io |-> outcome ] >>
    /\ start' = fs
    /\ UNCHANGED << run, call, system, os_name, tmp, pc, restore_mode, paths, version,
                    exit_status, streak >>

CallRestore ==
    /\ \E outcome \in CopyOutcomes :
         LET r == restore_backup_files(fs, paths[2], outcome)
         IN  /\ fs' = r.fs
             /\ trace' = << [ stage |-> "restore", ok |-> r.ok, io |-> outcome ] >>
    /\ start' = fs
    /\ UNCHANGED << run, call, system, os_name, tmp, pc, restore_mode, paths, version,
                    exit_status, snap, streak >>

\* main.js is rewritten.
Mutate ==
    /\ exists(fs, paths[2])
    /\ \E c \in Contents \cup { << >> } :
         /\ fs[paths[2]].content # c
         /\ fs' = [ fs EXCEPT ![paths[2]].content = c ]
    /\ trace' = << >>
    /\ start' = fs'
    /\ UNCHANGED << run, call, system, os_name, tmp, pc, restore_mode, paths, version,
                    exit_status, snap, streak >>

\* The mode of main.js is changed.
Chmod ==
    /\ exists(fs, paths[2])
    /\ \E m \in { "0600", "0644", "0444" } :
         /\ fs[paths[2]].mode # m
         /\ fs' = [ fs EXCEPT ![paths[2]].mode = m ]
    /\ trace' = << >>
    /\ start' = fs'
    /\ UNCHANGED << run, call, system, os_name, tmp, pc, restore_mode, paths, version,
                    exit_status, snap, streak >>

NextFiles ==
    \/ CallBackup
    \/ CallRestore
    \/ Mutate
    \/ Chmod

SpecFiles == InitFiles /\ [][NextFiles]_vars

-----------------------------------------------------------------------------
(* version_check called on its own *)

DigitChar(d) == CHOOSE c \in Digits : DigitVal(c) = d

\* The decimal numeral of a natural number.
RECURSIVE str(_)
str(n) == IF n < 10 THEN << DigitChar(n) >> ELSE Append(str(n \div 10), DigitChar(n % 10))

Dotted(t) == str(t[1]) \o << "." >> \o str(t[2]) \o << "." >> \o str(t[3])

Majors == { 0, 9 }
Minors == { 9, 44, 45 }
Patches == { 0, 9 }
Triples == Majors \X Minors \X Patches

\* "0.9.0" .. "9.45.9"
WellFormed == { Dotted(t) : t \in Triples }

\* "0.45", "a.b.c", "0.45.0.1"
Malformed ==
    { << "0", ".", "4", "5" >>,
      << "a", ".", "b", ".", "c" >>,
      << "0", ".", "4", "5", ".", "0", ".", "1" >> }

\* The bounds default to "", the version may be any string.
InitVersion ==
    /\ system = "Linux"
    /\ os_name = "posix"
    /\ fs = [ p \in PathsOf(system) |-> NoFile ]
    /\ tmp = "none"
    /\ pc = "idle"
    /\ restore_mode = FALSE
    /\ paths = None
    /\ version = None
    /\ trace = << >>
    /\ exit_status = "none"
    /\ start = fs
    /\ snap = NoFile
    /\ streak = None
    /\ run = NoRun
    /\ \E v \in WellFormed \cup Malformed \cup { << >> },
          lo \in WellFormed \cup Malformed \cup { << >> },
          hi \in WellFormed \cup Malformed \cup { << >> } :
         call = [ version |-> v, min_version |-> lo, max_version |-> hi,
                  result |-> "pending" ]

CallVersionCheck ==
    /\ call.result = "pending"
    /\ call' = [ call EXCEPT !.result =
                   IF version_check(call.version, call.min_version, call.max_version)
                   THEN "True" ELSE "False" ]
    /\ UNCHANGED << run, system, os_name, fs, tmp, pc, restore_mode, paths, version,
                    trace, exit_status, start, snap, streak >>

NextVersion == CallVersionCheck

SpecVersion == InitVersion /\ [][NextVersion]_vars

-----------------------------------------------------------------------------
(* modify_main_js called on its own *)

\* The header of a method that is not one of the two accessors.
OtherHeader == "async getDeviceId(){return "

\* Bodies without and with a nullish fallback.
Exprs == { << A >>, << A, "?", "?", B >> }

Method(header, expr) == << header >> \o expr \o << "}" >>

MethodTexts == { Method(h, e) : h \in { H1, H2, OtherHeader }, e \in Exprs }

MaxMethods == 3

\* The texts made of at most n methods, one after the other as in minified code.
RECURSIVE TextsOf(_)
TextsOf(n) ==
    IF n = 0 THEN { << >> }
    ELSE TextsOf(n - 1) \cup { t \o m : t \in TextsOf(n - 1), m \in MethodTexts }

InitPatch ==
    /\ \E host \in { << "Linux", "posix" >>, << "Windows", "nt" >> } :
         system = host[1] /\ os_name = host[2]
    /\ paths = << Pkg(Bases(system)[1]), Main(Bases(system)[1]) >>
    /\ \E text \in TextsOf(MaxMethods) :
         fs = [ p \in PathsOf(system) |->
                  IF p = paths[2]
                  THEN [ content |-> text, mode |-> NewFileMode, uid |-> ProcessUid ]
                  ELSE NoFile ]
    /\ tmp = "none"
    /\ pc = "idle"
    /\ restore_mode = FALSE
    /\ version = None
    /\ trace = << >>
    /\ exit_status = "none"
    /\ start = fs
    /\ snap = NoFile
    /\ streak = None
    /\ call = NoCall
    /\ run = NoRun

\* trace holds the latest call: the step that failed (io, "none" when no step
\* did) and what the call did, "True" or "False" returned or "raise"; start
\* holds the files before the call.
CallModifyMainJs ==
    /\ \E fault \in PatchFaults(os_name = "nt") :
         LET r == modify_main_js(fs, paths[2], os_name = "nt", fault)
         IN  /\ fs' = r.fs
             /\ tmp' = r.tmp
             /\ trace' = << [ stage |-> "patch", ok |-> r.result = "True",
                              io |-> fault.at, result |-> r.result ] >>
    /\ start' = fs
    /\ UNCHANGED << run, call, system, os_name, pc, restore_mode, paths, version,
                    exit_status, snap, streak >>

NextPatch == CallModifyMainJs

SpecPatch == InitPatch /\ [][NextPatch]_vars

-----------------------------------------------------------------------------
(* cursor_pro_keep_alive.py: get_cursor_session_token *)

\* The patcher's variables, which the retry loops leave alone.
patcher ==
    << system, os_name, fs, tmp, pc, restore_mode, paths, version, trace,
       exit_status, start, snap, streak, call >>

\* The patcher is not running.
PatcherIdle ==
    /\ system = "Linux"
    /\ os_name = "posix"
    /\ fs = [ p \in PathsOf(system) |-> NoFile ]
    /\ tmp = "none"
    /\ pc = "idle"
    /\ restore_mode = FALSE
    /\ paths = None
    /\ version = None
    /\ trace = << >>
    /\ exit_status = "none"
    /\ start = fs
    /\ snap = NoFile
    /\ streak = None
    /\ call = NoCall

SessionCookie == "WorkosCursorSessionToken"
Separator == "%3A%3A"

\* str.split(sep) on a value given as its pieces, the separator being one piece.
RECURSIVE SplitAt(_, _, _)
SplitAt(s, sep, cur) ==
    IF s = << >> THEN << cur >>
    ELSE IF Head(s) = sep THEN << cur >> \o SplitAt(Tail(s), sep, << >>)
    ELSE SplitAt(Tail(s), sep, Append(cur, Head(s)))

\* Index of the first cookie named WorkosCursorSessionToken from i on; 0 if none.
RECURSIVE FirstNamed(_, _)
FirstNamed(cookies, i) ==
    IF i > Len(cookies) THEN 0
    ELSE IF cookies[i].name = SessionCookie THEN i
    ELSE FirstNamed(cookies, i + 1)

\* The body of the try block up to the return: found with the token, or not
\* found, either because no cookie has the name or because an exception was
\* raised (by tab.cookies(), or IndexError by [1] on a value without separator).
read_cookies(jar) ==
    IF jar.raises THEN [ found |-> FALSE, raised |-> TRUE, token |-> << >> ]
    ELSE LET k == FirstNamed(jar.cookies, 1)
         IN  IF k = 0 THEN [ found |-> FALSE, raised |-> FALSE, token |-> << >> ]
             ELSE LET parts == SplitAt(jar.cookies[k].value, Separator, << >>)
                  IN  IF Len(parts) < 2
                      THEN [ found |-> FALSE, raised |-> TRUE, token |-> << >> ]
                      ELSE [ found |-> TRUE, raised |-> FALSE, token |-> parts[2] ]

\* Mutant: the loop sleeps after every failed attempt, the last one included.
token_attempt_always_sleeping(r, jar) ==
    IF read_cookies(jar).found
    THEN [ r EXCEPT !.pc = "done",
                    !.result = [ kind |-> "token", value |-> read_cookies(jar).token ],
                    !.log = Append(@, [ jar |-> jar, slept |-> FALSE ]) ]
    ELSE [ r EXCEPT !.attempts = @ + 1,
                    !.log = Append(@, [ jar |-> jar, slept |-> TRUE ]) ]

\* One iteration of the while loop on what tab.cookies() gives: attempts is
\* incremented on either failing path, and time.sleep runs when attempts is
\* still below max_attempts.
token_attempt(r, jar) ==
    IF read_cookies(jar).found
    THEN [ r EXCEPT !.pc = "done",
                    !.result = [ kind |-> "token", value |-> read_cookies(jar).token ],
                    !.log = Append(@, [ jar |-> jar, slept |-> FALSE ]) ]
    ELSE [ r EXCEPT !.attempts = @ + 1,
                    !.log = Append(@, [ jar |-> jar, slept |-> r.attempts + 1 < r.max ]) ]

OtherCookie == [ name |-> "NEXT_LOCALE", value |-> << "en" >> ]
GoodCookie == [ name |-> SessionCookie, value |-> << "user_01", Separator, "jwt" >> ]
BareCookie == [ name |-> SessionCookie, value |-> << "jwt" >> ]

\* What tab.cookies() can give: an exception, no cookie, no session cookie, a
\* session cookie of the form user%3A%3Atoken, or one without separator.
CookieJars ==
    { [ raises |-> TRUE, cookies |-> << >> ] }
    \cup { [ raises |-> FALSE, cookies |-> c ]
             : c \in { << >>, << OtherCookie >>, << OtherCookie, GoodCookie >>,
                       << BareCookie >> } }

MaxAttempts == 3

InitToken ==
    /\ PatcherIdle
    /\ \E m \in 0..MaxAttempts :
         run = [ fn |-> "get_cursor_session_token", max |-> m, attempts |-> 0,
                 pc |-> "loop", log |-> << >>,
                 result |-> [ kind |-> "pending", value |-> << >> ] ]

TokenAttempt ==
    /\ run.pc = "loop"
    /\ run.attempts < run.max
    /\ \E jar \in CookieJars : run' = token_attempt(run, jar)
    /\ UNCHANGED patcher

TokenReturnNone ==
    /\ run.pc = "loop"
    /\ ~(run.attempts < run.max)
    /\ run' = [ run EXCEPT !.pc = "done",
                           !.result = [ kind |-> "None", value |-> << >> ] ]
    /\ UNCHANGED patcher

NextToken == TokenAttempt \/ TokenReturnNone

\* The loop keeps running: tab.cookies() and time.sleep return.
SpecToken == InitToken /\ [][NextToken]_vars /\ WF_vars(NextToken)

-----------------------------------------------------------------------------
(* cursor_pro_keep_alive.py: handle_turnstile *)

\* VerificationStatus, in the order of the enumeration: name and selector.
VerificationStatus ==
    << [ name |-> "PASSWORD_PAGE", value |-> "@name=password" ],
       [ name |-> "CAPTCHA_PAGE", value |-> "@data-index=0" ],
       [ name |-> "ACCOUNT_SETTINGS", value |-> "Account Settings" ] >>

StatusNames == { VerificationStatus[i].name : i \in 1..Len(VerificationStatus) }

\* The first status, from position i on, whose element the page shows; "None"
\* if there is none.
RECURSIVE FirstStatus(_, _)
FirstStatus(page, i) ==
    IF i > Len(VerificationStatus) THEN "None"
    ELSE IF VerificationStatus[i].value \in page.present
    THEN VerificationStatus[i].name
    ELSE FirstStatus(page, i + 1)

\* "raise" when tab.ele raises.
check_verification_success(page) ==
    IF page.raises THEN "raise" ELSE FirstStatus(page, 1)

\* Mutant: an exception while locating or clicking the challenge aborts the call.
turnstile_attempt_aborting(r, in) ==
    LET found == in.locate = "found"
        clicked == found /\ in.click = "ok"
        aborted == in.locate = "raise" \/ (found /\ in.click = "raise")
        inner == IF clicked THEN check_verification_success(in.inner) ELSE "skipped"
        outer == IF inner \in StatusNames \/ aborted THEN "skipped"
                 ELSE check_verification_success(in.outer)
        entry == [ locate |-> in.locate,
                   click |-> IF found THEN in.click ELSE "skipped",
                   inner |-> inner, outer |-> outer ]
    IN  [ r EXCEPT !.count = @ + 1,
                   !.log = Append(@, entry),
                   !.pc = IF inner \in StatusNames \/ outer \in StatusNames
                             \/ outer = "raise" \/ aborted
                          THEN "done" ELSE "loop",
                   !.result = IF inner \in StatusNames \/ outer \in StatusNames
                              THEN "True"
                              ELSE IF outer = "raise" \/ aborted THEN "TurnstileError"
                              ELSE "pending" ]

\* One iteration of the while loop.  in.locate is what locating the challenge
\* gives ("raise", "absent" or "found"), in.click what clicking it gives,
\* in.inner the page at the check inside the inner try block and in.outer the
\* page at the check after it.  An exception of the inner try block is logged
\* and dropped; one of the second check reaches the outer except clause.
turnstile_attempt(r, in) ==
    LET found == in.locate = "found"
        clicked == found /\ in.click = "ok"
        inner == IF clicked THEN check_verification_success(in.inner) ELSE "skipped"
        outer == IF inner \in StatusNames THEN "skipped"
                 ELSE check_verification_success(in.outer)
        entry == [ locate |-> in.locate,
                   click |-> IF found THEN in.click ELSE "skipped",
                   inner |-> inner, outer |-> outer ]
    IN  [ r EXCEPT !.count = @ + 1,
                   !.log = Append(@, entry),
                   !.pc = IF inner \in StatusNames \/ outer \in StatusNames
                             \/ outer = "raise"
                          THEN "done" ELSE "loop",
                   !.result = IF inner \in StatusNames \/ outer \in StatusNames
                              THEN "True"
                              ELSE IF outer = "raise" THEN "TurnstileError"
                              ELSE "pending" ]

\* What the page can show when it is looked at, or the lookup raises.
Pages ==
    { [ raises |-> TRUE, present |-> { } ] }
    \cup { [ raises |-> FALSE, present |-> e ]
             : e \in { { }, { "@name=password" }, { "@data-index=0" },
                       { "Account Settings" },
                       { "@data-index=0", "Account Settings" } } }

TurnstileInputs ==
    [ locate : { "raise", "absent", "found" }, click : { "raise", "ok" },
      inner : Pages, outer : Pages ]

MaxRetries == 3

InitTurnstile ==
    /\ PatcherIdle
    /\ \E m \in 0..MaxRetries :
         run = [ fn |-> "handle_turnstile", max |-> m, count |-> 0,
                 pc |-> "loop", log |-> << >>, result |-> "pending" ]

TurnstileAttempt ==
    /\ run.pc = "loop"
    /\ run.count < run.max
    /\ \E in \in TurnstileInputs : run' = turnstile_attempt(run, in)
    /\ UNCHANGED patcher

TurnstileReturnFalse ==
    /\ run.pc = "loop"
    /\ ~(run.count < run.max)
    /\ run' = [ run EXCEPT !.pc = "done", !.result = "False" ]
    /\ UNCHANGED patcher

NextTurnstile == TurnstileAttempt \/ TurnstileReturnFalse

SpecTurnstile == InitTurnstile /\ [][NextTurnstile]_vars

-----------------------------------------------------------------------------
(* cursor_pro_keep_alive.py: sign_up_account, the wait for the verification code *)

\* The number of digits of a verification code, and the number of iterations
\* the log keeps.
CodeLen == 3
MaxPolls == 3

\* One iteration of "while True".  in.settings and in.input are what looking
\* for the account settings and for the first code field gives ("raise",
\* "absent" or "present"), in.code what get_verification_code gives ("raise",
\* "None" or "code") and in.typed the number of digits typed before a field
\* lookup raises (CodeLen: none raises).  Every exception is logged and the loop
\* starts over.
wait_iteration(r, in) ==
    LET asked == in.settings = "absent" /\ in.input = "present"
        typing == asked /\ in.code = "code"
        entry == [ settings |-> in.settings,
                   input |-> IF in.settings = "absent" THEN in.input ELSE "skipped",
                   code |-> IF asked THEN in.code ELSE "skipped",
                   typed |-> IF typing THEN in.typed ELSE 0 ]
        outcome == IF in.settings = "present" THEN "break"
                   ELSE IF asked /\ in.code = "None" THEN "False"
                   ELSE IF typing /\ in.typed = CodeLen THEN "break"
                   ELSE "pending"
    IN  [ r EXCEPT !.log = IF Len(@) < MaxPolls THEN Append(@, entry)
                           ELSE Append(Tail(@), entry),
                   !.pc = IF outcome = "pending" THEN "wait" ELSE "done",
                   !.result = outcome ]

WaitInputs ==
    [ settings : { "raise", "absent", "present" },
      input : { "raise", "absent", "present" },
      code : { "raise", "None", "code" },
      typed : 0..CodeLen ]

InitSignUp ==
    /\ PatcherIdle
    /\ run = [ fn |-> "sign_up_account", pc |-> "wait", log |-> << >>,
               result |-> "pending" ]

SignUpWait ==
    /\ run.pc = "wait"
    /\ \E in \in WaitInputs : run' = wait_iteration(run, in)
    /\ UNCHANGED patcher

NextSignUp == SignUpWait

\* The loop keeps running: every lookup returns or raises.
SpecSignUp == InitSignUp /\ [][NextSignUp]_vars /\ WF_vars(NextSignUp)

-----------------------------------------------------------------------------
(* Properties *)

Last(s) == s[Len(s)]

StageNames(t) == [ i \in 1..Len(t) |-> t[i].stage ]

IsPrefix(s, t) == Len(s) <= Len(t) /\ \A i \in 1..Len(s) : s[i] = t[i]

\* sub occurs in s as a contiguous run of tokens.
Contains(s, sub) ==
    \E i \in 0..(Len(s) - Len(sub)) : SubSeq(s, i + 1, i + Len(sub)) = sub

NormalOrder ==
    << "locate", "check", "version-read", "version-policy", "backup", "patch" >>
RestoreOrder == << "locate", "check", "restore" >>

\* The latest run has ended (the process has exited).
RunEnded == pc = "idle" /\ trace # << >>

\* Stage st ran in the current / latest run and failed.
Failed(st) == \E i \in 1..Len(trace) : trace[i].stage = st /\ ~trace[i].ok

\* C1: in a normal-mode run the stages run in the order locate, check,
\* version-read, version-policy, backup, patch; a stage runs only after every
\* earlier stage succeeded (so patch only after a successful backup of the same
\* run) and nothing runs after a failed stage.
C1_StageOrder ==
    ~restore_mode =>
        /\ IsPrefix(StageNames(trace), NormalOrder)
        /\ \A i \in 1..(Len(trace) - 1) : trace[i].ok
        /\ pc # "idle" =>
             /\ \A i \in 1..Len(trace) : trace[i].ok
             /\ pc = NormalOrder[Len(trace) + 1]
        /\ (\E i \in 1..Len(trace) : trace[i].stage = "patch") =>
             \E j \in 1..Len(trace) : trace[j].stage = "backup" /\ trace[j].ok

C1_Witness ==
    /\ ~restore_mode
    /\ RunEnded
    /\ StageNames(trace) = NormalOrder
    /\ Last(trace).ok

\* C2: a normal-mode run that fails at locate, check, version-read or
\* version-policy leaves the content of main.js unchanged and creates or
\* overwrites no .bak file.
C2_EarlyFailureTouchesNothing ==
    (/\ ~restore_mode
     /\ \E st \in { "locate", "check", "version-read", "version-policy" } : Failed(st))
    => \A p \in DOMAIN fs :
          /\ p = Main(p[1]) => fs[p].content = start[p].content
          /\ p = Bak(Main(p[1])) => fs[p] = start[p]

\* The run of the spec's scenario: version 0.44.0 against the minimum 0.45.0.
C2_Witness ==
    /\ ~restore_mode
    /\ RunEnded
    /\ Last(trace) = [ stage |-> "version-policy", ok |-> FALSE ]
    /\ version = V0440
    /\ exists(fs, paths[2])
    /\ exit_status = "1"

\* C3: a run exits 0 only if it reached Done or RestoreDone (its last stage,
\* patch or restore, succeeded); a run that ends in a Failed state exits with a
\* non-zero status.
C3_ExitStatus ==
    RunEnded =>
        /\ exit_status = "0" =>
             Last(trace).ok /\ Last(trace).stage \in { "patch", "restore" }
        /\ ~Last(trace).ok => exit_status = "1"

\* C4: after a successful backup_files, any rewriting of main.js and a
\* successful restore_backup_files, main.js has the content and the permission
\* bits it had when the backup was taken.
C4_RoundTrip ==
    (/\ trace # << >>
     /\ Last(trace).stage = "restore"
     /\ Last(trace).ok
     /\ snap # NoFile)
    => /\ fs[paths[2]].content = snap.content
       /\ fs[paths[2]].mode = snap.mode

\* The restore undid a rewrite and a chmod.
C4_Witness ==
    /\ trace # << >>
    /\ Last(trace).stage = "restore"
    /\ Last(trace).ok
    /\ snap # NoFile
    /\ start[paths[2]].content # snap.content
    /\ start[paths[2]].mode # snap.mode
    /\ fs[paths[2]].content = snap.content
    /\ fs[paths[2]].mode = snap.mode

NoFault == [ at |-> "none", how |-> "ok", move |-> "copy" ]

\* C5: for every content of main.js, a second modify_main_js leaves the content
\* the first one produced.
C5_PatchIdempotent ==
    \A p \in DOMAIN fs :
        (p = Main(p[1]) /\ exists(fs, p)) =>
            LET once == modify_main_js(fs, p, os_name = "nt", NoFault).fs
                twice == modify_main_js(once, p, os_name = "nt", NoFault).fs
            IN  twice[p].content = once[p].content

\* C6: a successful normal-mode run on the accessor
\*   async getMachineId(){return a.machineId ?? b.machineId}
\* with manifest version 0.46.1 leaves main.js containing
\*   async getMachineId(){return b.machineId}
\* and a .bak file with the original text.
C6_SpecExample ==
    (/\ ~restore_mode
     /\ RunEnded
     /\ exit_status = "0"
     /\ version = V0461
     /\ Contains(start[paths[2]].content, Spaced))
    => /\ Contains(fs[paths[2]].content, << H1, B, "}" >>)
       /\ fs[Bak(paths[2])].content = start[paths[2]].content

\* The latest run was a restore-mode run whose restore succeeded, and it
\* followed one or more successful normal-mode runs.
RestoredAfterPatching ==
    /\ restore_mode
    /\ RunEnded
    /\ Last(trace) = [ stage |-> "restore", ok |-> TRUE ]
    /\ streak # None

\* C7 as claimed: the restore gives back the content from before the first of
\* the normal-mode runs.
C7_RestoresFirst == RestoredAfterPatching => fs[paths[2]].content = streak[1]

\* C7 as amended: the restore gives back the content from before the last of
\* the normal-mode runs, the one whose backup is on disk.
C7_RestoresLast == RestoredAfterPatching => fs[paths[2]].content = streak[2]

\* The restore changed main.js back to what it was before the last run.
C7_Witness ==
    /\ RestoredAfterPatching
    /\ start[paths[2]].content # streak[2]
    /\ fs[paths[2]].content = streak[2]

\* C8: after a normal-mode run that failed at the patch stage the .bak file
\* exists and holds the content main.js had when the backup was taken, at the
\* start of the run; the failed patch is the last stage of the run (no retry,
\* no restore).
C8_BackupSurvivesFailedPatch ==
    (~restore_mode /\ RunEnded /\ Failed("patch"))
    => /\ exists(fs, Bak(paths[2]))
       /\ fs[Bak(paths[2])].content = start[paths[2]].content
       /\ snap.content = start[paths[2]].content
       /\ StageNames(trace) = NormalOrder
       /\ exit_status = "1"

\* The failed patch left main.js changed, and it stays so.
C8_Witness ==
    /\ ~restore_mode
    /\ RunEnded
    /\ Failed("patch")
    /\ fs[paths[2]].content # start[paths[2]].content

\* C9: a restore-mode run runs only locate, check and restore, reads no version,
\* creates no temporary file, and changes no file but main.js (the .bak file
\* included).
C9_RestoreModeFrame ==
    restore_mode =>
        /\ IsPrefix(StageNames(trace), RestoreOrder)
        /\ version = None
        /\ tmp = "none"
        /\ \A p \in DOMAIN fs :
               fs[p] # start[p] => (paths # None /\ p = paths[2])

C9_Witness ==
    /\ restore_mode
    /\ RunEnded
    /\ Last(trace) = [ stage |-> "restore", ok |-> TRUE ]
    /\ fs[paths[2]].content # start[paths[2]].content
    /\ fs[Bak(paths[2])] = start[Bak(paths[2])]

\* The latest call was restore_backup_files.
Restored == trace # << >> /\ Last(trace).stage = "restore"

\* C10 as claimed: without a .bak file the call reports failure and leaves
\* main.js as it was; with one it reports success and main.js has the backup's
\* content.
C10_RestoreReport ==
    Restored =>
        IF ~exists(start, Bak(paths[2]))
        THEN ~Last(trace).ok /\ fs[paths[2]] = start[paths[2]]
        ELSE Last(trace).ok
             /\ fs[paths[2]].content = start[Bak(paths[2])].content

\* C10 as amended: with a .bak file the call reports success exactly when the
\* copy raised no error, and then main.js has the backup's content.
C10_RestoreReportUnlessCopyFails ==
    Restored =>
        IF ~exists(start, Bak(paths[2]))
        THEN ~Last(trace).ok /\ fs = start
        ELSE /\ Last(trace).ok <=> Last(trace).io = "ok"
             /\ Last(trace).ok =>
                  fs[paths[2]].content = start[Bak(paths[2])].content

C10_Witness ==
    /\ Restored
    /\ exists(start, Bak(paths[2]))
    /\ Last(trace).ok
    /\ start[paths[2]].content # start[Bak(paths[2])].content
    /\ fs[paths[2]].content = start[Bak(paths[2])].content

BackedUp == trace # << >> /\ Last(trace).stage = "backup"

\* backup_files writes no path but <target>.bak and leaves the target as it was.
BackupFrame ==
    \A p \in DOMAIN fs : p # Bak(paths[2]) => fs[p] = start[p]

\* C11 as claimed: whenever backup_files reports success, main.js.bak exists
\* with the content main.js has at that moment, whatever an earlier backup
\* held; no other path is written and main.js is unchanged.
C11_BackupOnSuccess ==
    BackedUp =>
        /\ BackupFrame
        /\ Last(trace).ok =>
             /\ exists(fs, Bak(paths[2]))
             /\ fs[Bak(paths[2])].content = fs[paths[2]].content

\* C11 as amended: whenever backup_files reports success for a main.js that
\* exists, main.js.bak exists with the content main.js has at that moment,
\* whatever an earlier backup held; for a main.js that does not exist it reports
\* success and writes nothing. No other path is written and main.js is
\* unchanged.
C11_BackupOnSuccessOfExistingTarget ==
    BackedUp =>
        /\ BackupFrame
        /\ Last(trace).ok /\ exists(start, paths[2]) =>
             /\ exists(fs, Bak(paths[2]))
             /\ fs[Bak(paths[2])].content = fs[paths[2]].content
        /\ ~exists(start, paths[2]) => Last(trace).ok /\ fs = start

\* A backup taken over an earlier backup of other content.
C11_Witness ==
    /\ BackedUp
    /\ Last(trace).ok
    /\ exists(start, paths[2])
    /\ exists(start, Bak(paths[2]))
    /\ start[Bak(paths[2])].content # start[paths[2]].content
    /\ fs[Bak(paths[2])].content = fs[paths[2]].content

\* The triple of integers a well-formed string denotes.
Value(s) == CHOOSE t \in Triples : Dotted(t) = s

\* Lexicographic order on triples of integers.
TripleLE(a, b) ==
    \/ a[1] < b[1]
    \/ a[1] = b[1] /\ a[2] < b[2]
    \/ a[1] = b[1] /\ a[2] = b[2] /\ a[3] <= b[3]

Absent(bound) == bound = << >>

Returned == call.result \in { "True", "False" }

\* C12: for a well-formed version and bounds that are well-formed or absent,
\* version_check is true exactly when the version is no smaller than the
\* minimum and no greater than the maximum, each where supplied, as triples of
\* integers in lexicographic order; 0.45.0 satisfies a minimum of 0.45.0 and
\* 0.44.9 does not.
C12_WithinBounds ==
    /\ Returned
    /\ call.version \in WellFormed
    /\ call.min_version \in WellFormed \cup { << >> }
    /\ call.max_version \in WellFormed \cup { << >> }
    => /\ call.result = "True" <=>
            /\ Absent(call.min_version)
               \/ TripleLE(Value(call.min_version), Value(call.version))
            /\ Absent(call.max_version)
               \/ TripleLE(Value(call.version), Value(call.max_version))
       /\ call.min_version = MinVersion /\ Absent(call.max_version) =>
            /\ call.version = Dotted(<< 0, 45, 0 >>) => call.result = "True"
            /\ call.version = Dotted(<< 0, 44, 9 >>) => call.result = "False"

\* 0.44.9 against a minimum of 0.45.0.
C12_Witness ==
    /\ call.version = Dotted(<< 0, 44, 9 >>)
    /\ call.min_version = MinVersion
    /\ call.max_version = Dotted(<< 9, 9, 0 >>)
    /\ call.result = "False"

\* C13 as claimed: when the version, a supplied minimum or a supplied maximum
\* is not three dot-separated integers, version_check is false.
C13_MalformedIsFalse ==
    /\ Returned
    /\ \/ call.version \in Malformed \cup { << >> }
       \/ call.min_version \in Malformed
       \/ call.max_version \in Malformed
    => call.result = "False"

\* C20: for a well-formed version, a minimum that fails the version fails it
\* at every greater or equal minimum, and a maximum that fails the version
\* fails it at every smaller or equal maximum.
C20_MonotoneInBounds ==
    Returned /\ call.version \in WellFormed /\ call.result = "False" =>
        /\ call.min_version \in WellFormed /\ Absent(call.max_version) =>
             \A m2 \in WellFormed :
                TripleLE(Value(call.min_version), Value(m2)) =>
                    ~version_check(call.version, m2, << >>)
        /\ call.max_version \in WellFormed /\ Absent(call.min_version) =>
             \A m2 \in WellFormed :
                TripleLE(Value(m2), Value(call.max_version)) =>
                    ~version_check(call.version, << >>, m2)

\* 9.9.9 fails a maximum of 9.9.0, with smaller maxima to lower it to.
C20_Witness ==
    /\ call.version = Dotted(<< 9, 9, 9 >>)
    /\ Absent(call.min_version)
    /\ call.max_version = Dotted(<< 9, 9, 0 >>)
    /\ call.result = "False"
    /\ \E m2 \in WellFormed :
          /\ m2 # call.max_version
          /\ TripleLE(Value(m2), Value(call.max_version))

LinuxCandidates == 1..Len(LinuxBases)

\* C14: on Linux get_cursor_paths returns the paths under the first candidate,
\* in the declared order, whose package.json exists, and raises when there is
\* none; on a system it does not know it raises and no file is touched.  Either
\* failure ends the run at once with exit status 1.
C14_FirstCandidate ==
    trace # << >> =>
      /\ trace[1].stage = "locate"
      /\ system = "Linux" =>
           IF \E i \in LinuxCandidates : exists(start, Pkg(LinuxBases[i]))
           THEN /\ trace[1].ok
                /\ \E i \in LinuxCandidates :
                     /\ paths = << Pkg(LinuxBases[i]), Main(LinuxBases[i]) >>
                     /\ exists(start, Pkg(LinuxBases[i]))
                     /\ \A j \in 1..(i - 1) : ~exists(start, Pkg(LinuxBases[j]))
           ELSE ~trace[1].ok /\ Len(trace) = 1 /\ exit_status = "1" /\ fs = start
      /\ system \notin { "Linux", "Darwin", "Windows" } =>
           ~trace[1].ok /\ Len(trace) = 1 /\ exit_status = "1" /\ fs = start
                        /\ tmp = "none"

\* Only the second candidate is installed, and it is the one returned.
C14_Witness ==
    /\ system = "Linux"
    /\ trace # << >>
    /\ trace[1].ok
    /\ ~exists(start, Pkg(LinuxBases[1]))
    /\ exists(start, Pkg(LinuxBases[2]))
    /\ paths = << Pkg(LinuxBases[2]), Main(LinuxBases[2]) >>

\* C15: check_system_requirements succeeds exactly when package.json and main.js
\* both exist as files and are writable by the process; when it fails the run
\* ends there with exit status 1, no later stage has run and no file is changed.
C15_Requirements ==
    Len(trace) >= 2 =>
      /\ trace[2].stage = "check"
      /\ trace[2].ok <=>
           /\ exists(start, paths[1]) /\ Writable(start[paths[1]])
           /\ exists(start, paths[2]) /\ Writable(start[paths[2]])
      /\ ~trace[2].ok =>
           Len(trace) = 2 /\ pc = "idle" /\ exit_status = "1" /\ fs = start
                          /\ tmp = "none"

\* main.js is there and writable, package.json is read-only: the check fails.
C15_Witness ==
    /\ Len(trace) = 2
    /\ ~trace[2].ok
    /\ exists(start, paths[1]) /\ ~Writable(start[paths[1]])
    /\ exists(start, paths[2]) /\ Writable(start[paths[2]])
    /\ exit_status = "1"

Patched == trace # << >> /\ Last(trace).stage = "patch"

\* C16: after a successful modify_main_js main.js has the mode it had before
\* the call and, on POSIX, the owner it had before the call; on Windows the
\* owner is not set, so no failure of that step can fail the patch.
C16_ModeAndOwnerKept ==
    /\ Patched /\ Last(trace).ok =>
         /\ fs[paths[2]].mode = start[paths[2]].mode
         /\ os_name # "nt" => fs[paths[2]].uid = start[paths[2]].uid
    /\ os_name = "nt" => \A fault \in PatchFaults(TRUE) : fault.at # "chown"

\* A world-writable main.js of root, replaced by the user's temporary file and
\* given back its mode and owner.
C16_Witness ==
    /\ Patched /\ Last(trace).ok
    /\ os_name = "posix"
    /\ start[paths[2]].mode = "0666" /\ start[paths[2]].uid = "root"
    /\ fs[paths[2]].mode = "0666" /\ fs[paths[2]].uid = "root"
    /\ fs[paths[2]].content # start[paths[2]].content

\* C17 as claimed: whenever modify_main_js fails, no temporary file it created
\* remains on disk.
C17_NoTempFileAfterFailure ==
    Patched /\ ~Last(trace).ok => tmp = "none"

\* C18 as claimed: a successful normal-mode run changes no file but main.js and
\* main.js.bak, and leaves no temporary file.
C18_OnlyTargetAndBackupWritten ==
    RunEnded /\ Patched /\ Last(trace).ok =>
        /\ tmp = "none"
        /\ \A p \in DOMAIN fs :
              p \notin { paths[2], Bak(paths[2]) } => fs[p] = start[p]

\* C19 as claimed: once modify_main_js has acted, main.js holds either the
\* complete original text or the complete transformed text.
C19_OriginalOrTransformed ==
    Patched =>
        fs[paths[2]].content \in
            { start[paths[2]].content, ApplyPatterns(start[paths[2]].content) }

\* The tokens of the method that starts at position i: from its header to the
\* first closing brace after it, or to the end of the text when none follows.
MethodAt(s, i) == SubSeq(s, i, Find(s, i + 1, "}"))

\* The method at i has the shape  <header><expr>??<fallback>}
HasFallbackShape(s, i) ==
    /\ Last(MethodAt(s, i)) = "}"
    /\ Contains(MethodAt(s, i), << "?", "?" >>)

\* Some method of s with the given header has that shape.
HasAccessorShape(s, header) ==
    \E i \in 1..Len(s) : s[i] = header /\ HasFallbackShape(s, i)

\* C21 as claimed: when main.js has no getMachineId and no getMacMachineId
\* method of the shape  async <name>(){return <expr>??<fallback>}  and no step
\* fails, modify_main_js returns True and the content of main.js is what it was.
C21_NoShapeNoChange ==
    /\ Patched
    /\ Last(trace).io = "none"
    /\ ~HasAccessorShape(start[paths[2]].content, H1)
    /\ ~HasAccessorShape(start[paths[2]].content, H2)
    => /\ Last(trace).ok
       /\ fs[paths[2]].content = start[paths[2]].content

\* The methods of a text, each up to and including its closing brace.
RECURSIVE MethodsOf(_)
MethodsOf(s) ==
    IF s = << >> THEN << >>
    ELSE LET e == Find(s, 1, "}")
         IN  << SubSeq(s, 1, e) >> \o MethodsOf(SubSeq(s, e + 1, Len(s)))

\* C22 as claimed: a successful modify_main_js changes text only inside the
\* bodies of getMachineId and getMacMachineId: the methods are as many as
\* before with the headers they had, and every other method, with any ?? in
\* it, is token for token what it was.
C22_OnlyAccessorBodiesChange ==
    Patched /\ Last(trace).ok =>
        LET before == MethodsOf(start[paths[2]].content)
            after == MethodsOf(fs[paths[2]].content)
        IN  /\ Len(after) = Len(before)
            /\ \A k \in 1..Len(before) :
                  /\ k <= Len(after) => after[k][1] = before[k][1]
                  /\ before[k][1] \notin { H1, H2 } /\ k <= Len(after) =>
                        after[k] = before[k]

\* C23 as claimed: whatever step of modify_main_js fails, the call returns
\* False; it returns True when none fails and never raises.
C23_FailureIsReturned ==
    Patched =>
        /\ Last(trace).result \in { "True", "False" }
        /\ Last(trace).io # "none" => Last(trace).result = "False"

\* The session cookie of a read is there and has the form user%3A%3Atoken.
WellFormedSession(jar) ==
    /\ ~jar.raises
    /\ \E k \in 1..Len(jar.cookies) :
          /\ jar.cookies[k].name = SessionCookie
          /\ \A j \in 1..(k - 1) : jar.cookies[j].name # SessionCookie
          /\ Contains(jar.cookies[k].value, << Separator >>)

\* The cookies are read at most max_attempts times; a token is returned at the
\* first read that finds a well-formed session cookie and is the part after
\* the separator; None is returned after max_attempts failed reads; the loop
\* sleeps after each failed read but the max_attempts-th.
TokenLoopBounded ==
    /\ Len(run.log) <= run.max
    /\ \A i \in 1..Len(run.log) :
          /\ i < Len(run.log) => ~WellFormedSession(run.log[i].jar)
          /\ run.log[i].slept <=>
                ~WellFormedSession(run.log[i].jar) /\ i < run.max
    /\ run.pc = "loop" =>
          run.result.kind = "pending" /\ run.attempts = Len(run.log)
    /\ run.pc = "done" =>
          \/ /\ run.result.kind = "token"
             /\ run.log # << >>
             /\ WellFormedSession(Last(run.log).jar)
             /\ run.result.value = << "jwt" >>
          \/ /\ run.result = [ kind |-> "None", value |-> << >> ]
             /\ Len(run.log) = run.max
             /\ \A i \in 1..Len(run.log) : ~WellFormedSession(run.log[i].jar)

\* C24: get_cursor_session_token always terminates, after at most max_attempts
\* reads of the cookies whatever they give: it returns the token at the first
\* read that finds a well-formed session cookie and None once max_attempts reads
\* have failed, and sleeps only between attempts.
C24_TokenWithinAttempts == [] TokenLoopBounded /\ <>(run.pc = "done")

\* An exception, a cookie without separator, then the token at the third and
\* last allowed read, with a sleep after each of the first two.
C24_Witness ==
    /\ run.pc = "done"
    /\ run.max = 3
    /\ Len(run.log) = 3
    /\ run.log[1].jar.raises /\ run.log[1].slept
    /\ run.log[2].jar.cookies = << BareCookie >> /\ run.log[2].slept
    /\ run.result = [ kind |-> "token", value |-> << "jwt" >> ]

\* An attempt in which a verification-success status was detected.
Succeeded(entry) == entry.inner \in StatusNames \/ entry.outer \in StatusNames

\* An attempt ended by an exception outside the inner step.
RaisedOutside(entry) == entry.outer = "raise"

\* C25: handle_turnstile makes at most max_retries attempts; it returns True at
\* the first attempt in which a success status is detected and False after
\* max_retries attempts without one; an exception while locating or clicking the
\* challenge uses up the attempt and the loop goes on; TurnstileError is raised
\* only for an exception outside the inner step.
C25_TurnstileWithinRetries ==
    /\ Len(run.log) <= run.max
    /\ run.count = Len(run.log)
    /\ \A i \in 1..Len(run.log) :
          /\ i < Len(run.log) =>
                ~Succeeded(run.log[i]) /\ ~RaisedOutside(run.log[i])
          /\ run.log[i].locate = "raise" \/ run.log[i].click = "raise" =>
                run.log[i].inner = "skipped" /\ run.log[i].outer # "skipped"
    /\ run.result = "True" <=> run.log # << >> /\ Succeeded(Last(run.log))
    /\ run.result = "TurnstileError" <=>
          run.log # << >> /\ RaisedOutside(Last(run.log))
    /\ run.result = "False" =>
          Len(run.log) = run.max /\ \A i \in 1..Len(run.log) : ~Succeeded(run.log[i])
    /\ run.pc = "done" <=> run.result # "pending"
    /\ run.pc = "loop" /\ Len(run.log) = run.max => ENABLED TurnstileReturnFalse

\* The challenge is not found, then clicking it raises, then the third and last
\* attempt detects the account settings after the click.
C25_Witness ==
    /\ run.max = 3
    /\ Len(run.log) = 3
    /\ run.log[1].locate = "absent"
    /\ run.log[2].click = "raise"
    /\ run.log[3].inner = "ACCOUNT_SETTINGS"
    /\ run.result = "True"

\* C26 as claimed: the wait loop of sign_up_account ends whatever the page
\* does, also when neither element ever appears and when every lookup raises.
C26_WaitLoopEnds == <>(run.pc = "done")

=============================================================================
